---------------------------- MODULE Spec2Model ----------------------------
(***************************************************************************)
(* Model of build.py, the build-and-packaging pipeline that turns a        *)
(* cppcheck checkout into a PlatformIO registry package.                   *)
(*                                                                         *)
(* Strings are TLA+ strings; the Python string methods the script uses     *)
(* (replace, count, split, strip, lower, "in", re.match) are operators     *)
(* over them, written character by character.                             *)
(***************************************************************************)
EXTENDS Integers, Sequences, FiniteSets, TLC

(***************************************************************************)
(* Bounds of the model.                                                    *)
(***************************************************************************)
\* Largest major number of the versions drawn for the conversion.
MaxMajor == 2
\* Largest minor / patch number of the versions drawn for the conversion.
MaxField == 99
\* Largest number of lines of the dependency-linker output.
MaxLines == 3
\* Largest number of runs of the Package Assembler on one tree.
MaxRuns == 2

(***************************************************************************)
(* Python string methods.                                                  *)
(***************************************************************************)
\* s[i] for a 1-based i
Char(s, i) == SubSeq(s, i, i)

\* s[i:] for a 1-based i
From(s, i) == SubSeq(s, i, Len(s))

\* s.startswith(p, i-1): p occurs in s at the 1-based position i
OccursAt(s, p, i) ==
    /\ i >= 1
    /\ i + Len(p) - 1 <= Len(s)
    /\ SubSeq(s, i, i + Len(p) - 1) = p

\* p in s
Contains(s, p) == \E i \in 1..(Len(s) + 1) : OccursAt(s, p, i)

\* s.find(p, i-1) as a 1-based position, 0 when p does not occur from i on
RECURSIVE Find(_, _, _)
Find(s, p, i) ==
    IF i + Len(p) - 1 > Len(s) THEN 0
    ELSE IF OccursAt(s, p, i) THEN i
    ELSE Find(s, p, i + 1)

\* s.replace(old, new) for a non-empty old: every non-overlapping occurrence,
\* left to right
RECURSIVE Replace(_, _, _)
Replace(s, old, new) ==
    LET k == Find(s, old, 1)
    IN  IF k = 0 THEN s
        ELSE SubSeq(s, 1, k - 1) \o new \o Replace(From(s, k + Len(old)), old, new)

\* s.count(p) for a non-empty p: the non-overlapping occurrences
RECURSIVE Count(_, _)
Count(s, p) ==
    LET k == Find(s, p, 1)
    IN  IF k = 0 THEN 0 ELSE 1 + Count(From(s, k + Len(p)), p)

\* s.split(sep) for a non-empty sep: always at least one field
RECURSIVE Split(_, _)
Split(s, sep) ==
    LET k == Find(s, sep, 1)
    IN  IF k = 0 THEN <<s>>
        ELSE <<SubSeq(s, 1, k - 1)>> \o Split(From(s, k + Len(sep)), sep)

\* sep.join(parts)
RECURSIVE Join(_, _)
Join(parts, sep) ==
    IF Len(parts) = 0 THEN ""
    ELSE IF Len(parts) = 1 THEN parts[1]
    ELSE parts[1] \o sep \o Join(Tail(parts), sep)

IsSpace(c) == c \in {" ", "\t", "\n", "\r"}

\* s.strip()
RECURSIVE LStrip(_)
LStrip(s) ==
    IF Len(s) > 0 /\ IsSpace(Char(s, 1)) THEN LStrip(From(s, 2)) ELSE s

RECURSIVE RStrip(_)
RStrip(s) ==
    IF Len(s) > 0 /\ IsSpace(Char(s, Len(s))) THEN RStrip(SubSeq(s, 1, Len(s) - 1))
    ELSE s

Strip(s) == RStrip(LStrip(s))

Upper26 == "ABCDEFGHIJKLMNOPQRSTUVWXYZ"
Lower26 == "abcdefghijklmnopqrstuvwxyz"

\* the lower-case letter of each upper-case letter
LowerOf ==
    [c \in {Char(Upper26, i) : i \in 1..26} |-> Char(Lower26, Find(Upper26, c, 1))]

\* c.lower() for one character
LowerChar(c) == IF c \in DOMAIN LowerOf THEN LowerOf[c] ELSE c

\* s.lower()
RECURSIVE Lower(_)
Lower(s) ==
    IF Len(s) = 0 THEN "" ELSE LowerChar(Char(s, 1)) \o Lower(From(s, 2))

\* str(n) for a natural number n
RECURSIVE Dec(_)
Dec(n) ==
    IF n < 10 THEN Char("0123456789", n + 1)
    ELSE Dec(n \div 10) \o Char("0123456789", (n % 10) + 1)

(***************************************************************************)
(* State.                                                                  *)
(***************************************************************************)
VARIABLES
    \* Version Resolver
    env_version,        \* os.environ PLATFORMIO_PACKAGE_VERSION: [set, val]
    env_github_ref,     \* os.environ GITHUB_REF, "" when unset
    git_describe,       \* what `git describe --tags` answers: [returncode, out]
    cppcheck_version,   \* the ReleaseVersion
    pio_pkg_version,    \* the RegistryVersion
    vpc,                \* where the version code stands
    parts,              \* the fields the drawn ReleaseVersion was written from
    \* Dependency Extractor
    binary_exists,      \* os.path.isfile(binary_path)
    ldd,                \* what `ldd <binary>` answers: [returncode, out]
    ldd_entries,        \* the lines ldd's output was written from
    fs_files,           \* the library files on disk, by native path
    allowed_paths,      \* the allow-list, <<>> for None
    xres,               \* what extract_dynamic_libraries came to
    xpc,                \* where the extractor stands
    \* Package Assembler
    is_windows,         \* IS_WINDOWS
    fs_case_sensitive,  \* whether the file system tells README.md from readme.md
    cwd_files,          \* os.listdir(os.getcwd()), less the build's own directories
    tree,               \* the installation tree: [exists, files, dirs], paths
                        \* relative to install_dir
    asm_log,            \* what each run of prepare_package came to
    \* main
    pc,                 \* the call main stands before, or the one it ended in
    exit_code,          \* the process's exit code, -1 while it runs
    failure,            \* what ended the run, "" when nothing did
    env_systems,        \* os.environ PLATFORMIO_PACKAGE_SYSTEM_VALUES, "" when unset
    package_systems,    \* the target-platform list
    cmd_rc,             \* the exit code of each fatal external command, -1 before it ran
    manifest,           \* what package.json holds
    result_dir          \* the files of RESULT_DIR

verVars == <<env_version, env_github_ref, git_describe, cppcheck_version,
             pio_pkg_version, vpc, parts>>

depVars == <<binary_exists, ldd, ldd_entries, fs_files, allowed_paths, xres, xpc>>

asmVars == <<is_windows, fs_case_sensitive, cwd_files, tree, asm_log>>

mainVars == <<pc, exit_code, failure, env_systems, package_systems, cmd_rc, manifest,
              result_dir>>

vars == <<verVars, depVars, asmVars, mainVars>>

(***************************************************************************)
(* The values of the parts of the state a specification leaves out.        *)
(***************************************************************************)
Unset == [set |-> FALSE, val |-> ""]
SetTo(v) == [set |-> TRUE, val |-> v]
NoResult == [returncode |-> 0, out |-> ""]
NoParts == [v |-> "", major |-> "", minor |-> "", has_patch |-> FALSE, patch |-> ""]

VerIdle ==
    /\ env_version = Unset
    /\ env_github_ref = ""
    /\ git_describe = NoResult
    /\ cppcheck_version = ""
    /\ pio_pkg_version = ""
    /\ vpc = "idle"
    /\ parts = NoParts

ExtractOk(libs, warnings) ==
    [ok |-> TRUE, libs |-> libs, err |-> "", warnings |-> warnings]
ExtractRaised(e, warnings) ==
    [ok |-> FALSE, libs |-> <<>>, err |-> e, warnings |-> warnings]

NoExtract == ExtractOk(<<>>, 0)

DepIdle ==
    /\ binary_exists = FALSE
    /\ ldd = NoResult
    /\ ldd_entries = <<>>
    /\ fs_files = {}
    /\ allowed_paths = <<>>
    /\ xres = NoExtract
    /\ xpc = "idle"

Tree(exists, files, dirs) == [exists |-> exists, files |-> files, dirs |-> dirs]

NoTree == Tree(FALSE, {}, {})

AsmIdle ==
    /\ is_windows = FALSE
    /\ fs_case_sensitive = FALSE
    /\ cwd_files = {}
    /\ tree = NoTree
    /\ asm_log = <<>>

Commands == {"configure", "install", "version", "pack", "tar"}
NoManifest == [name |-> "", version |-> "", system |-> <<>>]

MainIdle ==
    /\ pc = "idle"
    /\ exit_code = -1
    /\ failure = ""
    /\ env_systems = ""
    /\ package_systems = <<>>
    /\ cmd_rc = [c \in Commands |-> -1]
    /\ manifest = NoManifest
    /\ result_dir = {}

\* A call's outcome: it returned val, or an exception left it.
Returned(v) == [ok |-> TRUE, val |-> v]
Raised(e) == [ok |-> FALSE, val |-> e]

(***************************************************************************)
(* Version Resolver.                                                       *)
(***************************************************************************)
\* The conversion with the implicit ".0" of a two-field version left out.
convert_without_implicit_patch(version) ==
    LET v1 == Replace(version, "v", "")
        fields == Split(v1, ".")
    IN  IF Len(fields) # 3 THEN Raised("ValueError")
        ELSE LET a == IF Len(fields[2]) < 2 THEN fields[1] \o "0" \o fields[2]
                      ELSE fields[1] \o fields[2]
                 b == IF Len(fields[3]) < 2 THEN a \o "0" \o fields[3]
                      ELSE a \o fields[3]
             IN  Returned("1." \o b \o ".0")

\* The conversion with the patch field appended as it is, never padded.
convert_without_patch_padding(version) ==
    LET v1 == Replace(version, "v", "")
        v2 == IF Count(v1, ".") = 1 THEN v1 \o ".0" ELSE v1
        fields == Split(v2, ".")
    IN  IF Len(fields) # 3 THEN Raised("ValueError")
        ELSE LET a == IF Len(fields[2]) < 2 THEN fields[1] \o "0" \o fields[2]
                      ELSE fields[1] \o fields[2]
             IN  Returned("1." \o a \o fields[3] \o ".0")

convert_version_to_pio_compatible(version) ==
    LET v1 == Replace(version, "v", "")
        v2 == IF Count(v1, ".") = 1 THEN v1 \o ".0" ELSE v1
        fields == Split(v2, ".")
    IN  \* major, minor, patch = version.split(".")
        IF Len(fields) # 3 THEN Raised("ValueError")
        ELSE LET major == fields[1]
                 minor == fields[2]
                 patch == fields[3]
                 a == IF Len(minor) < 2 THEN major \o "0" \o minor
                      ELSE major \o minor
                 b == IF Len(patch) < 2 THEN a \o "0" \o patch ELSE a \o patch
             IN  Returned("1." \o b \o ".0")

get_piopkg_cppcheck_version(version) == convert_version_to_pio_compatible(version)

\* github_ref is GITHUB_REF ("" when unset); describe is the answer of
\* `git describe --tags`, which is run only when GITHUB_REF is empty.
extract_version_from_git_env(github_ref, describe) ==
    IF github_ref # ""
    THEN LET original_version == Replace(github_ref, "refs/tags/", "")
         IN  IF original_version # "" THEN Returned(original_version)
             \* falls through to print(str(res["err"])): res was never assigned
             ELSE Raised("UnboundLocalError")
    ELSE IF describe.returncode = 0 THEN Returned(Strip(describe.out))
    ELSE Returned("1.0.0")

\* os.environ.get(name, default) evaluates its default before the lookup.
get_cppcheck_version(override, github_ref, describe) ==
    LET default == extract_version_from_git_env(github_ref, describe)
    IN  IF ~default.ok THEN default
        ELSE IF override.set THEN Returned(override.val)
        ELSE default

GetCppcheckVersion ==
    /\ vpc = "start"
    /\ LET r == get_cppcheck_version(env_version, env_github_ref, git_describe)
       IN  /\ vpc' = IF r.ok THEN "resolved" ELSE "resolve_aborted"
           /\ cppcheck_version' = IF r.ok THEN r.val ELSE ""
    /\ UNCHANGED <<env_version, env_github_ref, git_describe, pio_pkg_version, parts>>
    /\ UNCHANGED <<depVars, asmVars, mainVars>>

GetPiopkgCppcheckVersion ==
    /\ vpc = "resolved"
    /\ LET r == get_piopkg_cppcheck_version(cppcheck_version)
       IN  /\ vpc' = IF r.ok THEN "converted" ELSE "convert_aborted"
           /\ pio_pkg_version' = IF r.ok THEN r.val ELSE ""
    /\ UNCHANGED <<env_version, env_github_ref, git_describe, cppcheck_version, parts>>
    /\ UNCHANGED <<depVars, asmVars, mainVars>>

(***************************************************************************)
(* Dependency Extractor.                                                   *)
(***************************************************************************)
posix2win(path) == Char(path, 2) \o ":" \o From(path, 3)

\* re.match(r"^.+(?:dll|DLL) => (?P<lib_path>.*) \((?:.*)\)$", line) on a line
\* without line breaks: [ok, lib_path].  The first group of characters and
\* lib_path are greedy: the longest prefix that lets the rest match is taken,
\* and under it the longest lib_path.
re_match(line) ==
    LET n == Len(line)
        \* a prefix of i characters, then dll or DLL, then " => "
        Prefix(i) ==
            /\ OccursAt(line, "dll", i + 1) \/ OccursAt(line, "DLL", i + 1)
            /\ OccursAt(line, " => ", i + 4)
        \* a lib_path of k characters from position i + 8, then " (", any
        \* characters, and ")" as the last character
        Rest(i, k) ==
            /\ OccursAt(line, " (", i + 8 + k)
            /\ i + 8 + k + 2 <= n
            /\ Char(line, n) = ")"
        prefixes == { i \in 1..n : Prefix(i) /\ \E k \in 0..n : Rest(i, k) }
    IN  IF prefixes = {} THEN [ok |-> FALSE, lib_path |-> ""]
        ELSE LET i == CHOOSE x \in prefixes : \A y \in prefixes : y <= x
                 ks == { k \in 0..n : Rest(i, k) }
                 k == CHOOSE x \in ks : \A y \in ks : y <= x
             IN  [ok |-> TRUE, lib_path |-> SubSeq(line, i + 8, i + 8 + k - 1)]

\* any(path in lib_path for path in allowed_paths), with all for any
is_allowed_by_all(lib_path, allowed) ==
    \A j \in 1..Len(allowed) : Contains(lib_path, allowed[j])

\* any(path in lib_path for path in allowed_paths)
is_allowed(lib_path, allowed) ==
    \E j \in 1..Len(allowed) : Contains(lib_path, allowed[j])

\* The loop over res["out"].split("\n") from line i on.
RECURSIVE extract_lines(_, _, _, _, _, _)
extract_lines(lines, i, libs, warnings, files, allowed) ==
    IF i > Len(lines) THEN ExtractOk(libs, warnings)
    ELSE LET line == Strip(lines[i])
             match == re_match(line)
         IN  IF line = ""
             THEN extract_lines(lines, i + 1, libs, warnings, files, allowed)
             \* the warning is printed and match.group is called on None
             ELSE IF ~match.ok THEN ExtractRaised("AttributeError", warnings + 1)
             \* path[1] of a path shorter than two characters
             ELSE IF Len(match.lib_path) < 2 THEN ExtractRaised("IndexError", warnings)
             ELSE LET lib_path == posix2win(match.lib_path)
                  IN  IF lib_path \notin files
                      THEN ExtractRaised("AssertionError", warnings)
                      ELSE extract_lines(lines, i + 1,
                               IF is_allowed(lib_path, allowed)
                               THEN Append(libs, lib_path) ELSE libs,
                               warnings, files, allowed)

\* is_file: os.path.isfile(binary_path); res: what ldd answers; files: the
\* files os.path.isfile finds; allowed: allowed_paths or []
extract_dynamic_libraries(is_file, res, files, allowed) ==
    IF ~is_file THEN ExtractRaised("AssertionError", 0)
    ELSE IF res.returncode # 0 THEN ExtractOk(<<>>, 0)
    ELSE extract_lines(Split(res.out, "\n"), 1, <<>>, 0, files, allowed)

ExtractDynamicLibraries ==
    /\ xpc = "start"
    /\ xres' = extract_dynamic_libraries(binary_exists, ldd, fs_files, allowed_paths)
    /\ xpc' = IF xres'.ok THEN "returned" ELSE "aborted"
    /\ UNCHANGED <<binary_exists, ldd, ldd_entries, fs_files, allowed_paths>>
    /\ UNCHANGED <<verVars, asmVars, mainVars>>

(***************************************************************************)
(* SpecExtract: the extractor on its own, on an ldd output of up to        *)
(* MaxLines lines.                                                         *)
(***************************************************************************)
Dep(lib, path, addr, native) ==
    [kind |-> "dep", lib |-> lib, path |-> path, addr |-> addr, native |-> native,
     text |-> "\t" \o lib \o " => " \o path \o " (" \o addr \o ")"]
Raw(text) ==
    [kind |-> "raw", lib |-> "", path |-> "", addr |-> "", native |-> "", text |-> text]

DepLines ==
    { Dep("libgcc.dll", "/c/msys64/libgcc.dll", "0x6f", "c:/msys64/libgcc.dll"),
      Dep("KERNEL32.DLL", "/c/Windows/KERNEL32.DLL", "0x7f", "c:/Windows/KERNEL32.DLL"),
      Dep("zlib1.dll", "/d/msys64/zlib1.dll", "0x62", "d:/msys64/zlib1.dll") }
RawLines ==
    { Raw(""), Raw("\tlinux-vdso.so.1 (0x7f)"), Raw("\tmissing.dll => not found") }
LddLines == DepLines \cup RawLines

RECURSIVE SeqsUpTo(_, _)
SeqsUpTo(S, n) ==
    IF n = 0 THEN {<<>>}
    ELSE LET shorter == SeqsUpTo(S, n - 1)
         IN  shorter \cup { Append(q, x) : q \in shorter, x \in S }

Texts(entries) == [j \in 1..Len(entries) |-> entries[j].text]
LddOut(entries) == IF entries = <<>> THEN "" ELSE Join(Texts(entries), "\n") \o "\n"

Natives == { e.native : e \in DepLines }
AllowLists == { <<>>, <<"msys64">>, <<"Windows", "msys64">>, <<"">> }

InitExtract ==
    /\ ldd_entries \in SeqsUpTo(LddLines, MaxLines)
    /\ \E rc \in {0, 1} : ldd = [returncode |-> rc, out |-> LddOut(ldd_entries)]
    /\ binary_exists \in BOOLEAN
    /\ fs_files \in {Natives, Natives \ {"d:/msys64/zlib1.dll"}}
    /\ allowed_paths \in AllowLists
    /\ xres = NoExtract
    /\ xpc = "start"
    /\ VerIdle
    /\ AsmIdle
    /\ MainIdle

NextExtract == ExtractDynamicLibraries

SpecExtract == InitExtract /\ [][NextExtract]_vars

IsDep(e) == e.kind = "dep"
IsAllowListed(native) == \E j \in 1..Len(allowed_paths) : Contains(native, allowed_paths[j])
NativeOf(entries) == [j \in 1..Len(entries) |-> entries[j].native]

\* The allow-listed libraries of the ldd output, in ldd's order, one per line.
ExpectedLibs == SelectSeq(NativeOf(SelectSeq(ldd_entries, IsDep)), IsAllowListed)

LddSucceeded ==
    /\ xpc \in {"returned", "aborted"}
    /\ binary_exists
    /\ ldd.returncode = 0
    /\ \A j \in 1..Len(ldd_entries) :
          IsDep(ldd_entries[j]) => ldd_entries[j].native \in fs_files

\* C3: when ldd exits 0, a non-empty line that is no "<lib>.dll => <path>
\* (<address>)" line is warned about and skipped: the extractor returns, and
\* returns the allow-listed libraries of the lines before and after it.
C3_WarnAndContinue ==
    LddSucceeded =>
        /\ xpc = "returned"
        /\ xres.libs = ExpectedLibs

\* C4: when every line of the ldd output is a library line whose file
\* exists and the allow-list holds non-empty substrings only, the extractor
\* returns exactly the converted paths that contain an allow-listed
\* substring, in ldd's order, each as often as ldd reported it.
C4_AllowListedSubsequence ==
    ( /\ LddSucceeded
      /\ \A j \in 1..Len(ldd_entries) : IsDep(ldd_entries[j])
      /\ \A j \in 1..Len(allowed_paths) : allowed_paths[j] # "" )
    => /\ xpc = "returned"
       /\ xres.libs = ExpectedLibs

C4_Witness ==
    /\ xpc = "returned"
    /\ Len(ldd_entries) = 3
    /\ ldd_entries[1] = ldd_entries[3]
    /\ ldd_entries[2].lib = "KERNEL32.DLL"
    /\ allowed_paths = <<"msys64">>
    /\ xres.libs = <<"c:/msys64/libgcc.dll", "c:/msys64/libgcc.dll">>

(***************************************************************************)
(* Package Assembler.                                                      *)
(***************************************************************************)
normalize_binary(binary_name, windows) ==
    IF windows THEN binary_name \o ".exe" ELSE binary_name

\* os.listdir(install_dir): the names at the root of the tree
listdir(t) == { f \in t.files : ~Contains(f, "/") } \cup t.dirs

\* shutil.rmtree(d) that deletes what is under d and leaves d itself
rmtree_keeping_dir(t, d) ==
    Tree(t.exists, { f \in t.files : ~OccursAt(f, d \o "/", 1) }, t.dirs)

\* shutil.move(src, dst) of a file onto a path that is no directory
move(t, src, dst) == Tree(t.exists, (t.files \ {src}) \cup {dst}, t.dirs)

\* shutil.rmtree(d, ignore_errors=False) that succeeds
rmtree(t, d) ==
    Tree(t.exists, { f \in t.files : ~OccursAt(f, d \o "/", 1) }, t.dirs \ {d})

\* shutil.copy / shutil.copyfile of an existing file to dst
copy_to(t, dst) == Tree(t.exists, t.files \cup {dst}, t.dirs)

\* os.path.basename of a native path: what follows the last separator or the
\* drive's colon
basename(path) ==
    LET k == Len(path)
        cut == { i \in 1..k : Char(path, i) \in {"/", "\\"} \/ (i = 2 /\ Char(path, i) = ":") }
    IN  IF cut = {} THEN path
        ELSE From(path, (CHOOSE i \in cut : \A j \in cut : j <= i) + 1)

ReadmeNames == {"readme.md", "readme.txt"}

\* the names of the working directory the readme loop stops at
readme_matches(cwd) == { f \in cwd : Lower(f) \in ReadmeNames }

\* os.path.join(os.getcwd(), f) names a file, f being a lowered name of cwd
lowered_exists(cwd, case_sensitive, f) ==
    IF case_sensitive THEN f \in cwd ELSE \E g \in cwd : Lower(g) = f

AsmOk(t) == [ok |-> TRUE, at |-> "", tree |-> t]
AsmRaised(at, t) == [ok |-> FALSE, at |-> at, tree |-> t]

\* copy_msys_lib_deps(binary_path, ["msys64"]) on the tree t
RECURSIVE copy_libs(_, _)
copy_libs(t, libs) ==
    IF libs = <<>> THEN t
    ELSE copy_libs(copy_to(t, basename(Head(libs))), Tail(libs))

copy_msys_lib_deps(t, res, files, allowed) ==
    LET r == extract_dynamic_libraries(TRUE, res, files, allowed)
    IN  IF r.ok THEN AsmOk(copy_libs(t, r.libs))
        ELSE AsmRaised("copy_msys_lib_deps", t)

\* t: the tree; cwd: the working directory's names; first: the first name
\* os.listdir(os.getcwd()) gives that is a readme, "" when there is none;
\* rmtree_ok: whether the bin directory can be deleted; res, files: ldd's
\* answer and the library files on disk.
prepare_package(t, windows, cwd, case_sensitive, first, rmtree_ok, res, files) ==
    LET binary_name == normalize_binary("cppcheck", windows)
        binary_path == "bin/" \o binary_name
    IN  IF ~t.exists THEN AsmRaised("listdir", t)
        ELSE IF listdir(t) = {} THEN AsmRaised("assert_not_empty", t)
        ELSE IF binary_path \notin t.files THEN AsmRaised("assert_binary_in_bin", t)
        ELSE LET t1 == move(t, binary_path, binary_name)
             IN  IF ~rmtree_ok THEN AsmRaised("rmtree", t1)
                 ELSE LET t2 == rmtree(t1, "bin")
                          f == Lower(first)
                      IN  IF first # "" /\ ~lowered_exists(cwd, case_sensitive, f)
                          THEN AsmRaised("copy_readme", t2)
                          ELSE LET t3 == IF first = "" THEN t2 ELSE copy_to(t2, f)
                               IN  IF windows
                                   THEN copy_msys_lib_deps(t3, res, files, <<"msys64">>)
                                   ELSE AsmOk(t3)

FirstReadmes(cwd) == IF readme_matches(cwd) = {} THEN {""} ELSE readme_matches(cwd)

PreparePackage ==
    /\ Len(asm_log) < MaxRuns
    /\ \E first \in FirstReadmes(cwd_files), rmtree_ok \in BOOLEAN :
          LET r == prepare_package(tree, is_windows, cwd_files, fs_case_sensitive,
                                   first, rmtree_ok, ldd, fs_files)
          IN  /\ tree' = r.tree
              /\ asm_log' = Append(asm_log, r)
    /\ UNCHANGED <<is_windows, fs_case_sensitive, cwd_files>>
    /\ UNCHANGED <<verVars, depVars, mainVars>>

(***************************************************************************)
(* SpecAssemble: the assembler run, and run again, on a tree as the        *)
(* install step may leave it.                                              *)
(***************************************************************************)
\* The trees: the three auxiliary directories or not, a bin directory with
\* the binary and other programs or not, and what an earlier run left.
InstalledTrees(windows) ==
    LET b == normalize_binary("cppcheck", windows)
    IN  { Tree(TRUE, in_bin \cup stale, aux \cup (IF has_bin THEN {"bin"} ELSE {})) :
            aux \in {{}, {"addons", "cfg"}, {"addons", "cfg", "platforms"}},
            has_bin \in BOOLEAN,
            in_bin \in {{}, {"bin/" \o b}, {"bin/" \o b, "bin/htmlreport"}},
            stale \in {{}, {b, "package.json"}} }

WellFormedTree(t) ==
    /\ \A f \in t.files : OccursAt(f, "bin/", 1) => "bin" \in t.dirs
    /\ listdir(t) # {} => t.exists

WorkingDirs(case_sensitive) ==
    { d \in SUBSET {"README.md", "readme.md", "Readme.txt", "build.py"} :
        case_sensitive \/ ~({"README.md", "readme.md"} \subseteq d) }

AsmLddEntries ==
    { <<>>,
      <<Dep("libgcc.dll", "/c/msys64/libgcc.dll", "0x6f", "c:/msys64/libgcc.dll"),
        Dep("KERNEL32.DLL", "/c/Windows/KERNEL32.DLL", "0x7f", "c:/Windows/KERNEL32.DLL")>>,
      <<Raw("\tmissing.dll => not found")>> }

InitAssemble ==
    /\ is_windows \in BOOLEAN
    /\ fs_case_sensitive \in BOOLEAN
    /\ cwd_files \in WorkingDirs(fs_case_sensitive)
    /\ tree \in {NoTree} \cup { t \in InstalledTrees(is_windows) : WellFormedTree(t) }
    /\ asm_log = <<>>
    /\ VerIdle
    /\ MainIdle
    /\ binary_exists = TRUE
    /\ ldd_entries \in (IF is_windows THEN AsmLddEntries ELSE {<<>>})
    /\ \E rc \in (IF is_windows THEN {0, 1} ELSE {1}) :
          ldd = [returncode |-> rc, out |-> LddOut(ldd_entries)]
    /\ fs_files = Natives
    /\ allowed_paths = <<"msys64">>
    /\ xres = NoExtract
    /\ xpc = "idle"

NextAssemble == PreparePackage

SpecAssemble == InitAssemble /\ [][NextAssemble]_vars

BinaryName == normalize_binary("cppcheck", is_windows)

\* C7: after a successful run of the assembler the binary is a file at the
\* root of the tree and the tree has no bin directory; the run after a
\* successful run fails on the binary-in-bin assertion and leaves the tree
\* as it was.
C7_NoBinAfterAssembly ==
    \A i \in 1..Len(asm_log) :
        asm_log[i].ok =>
            /\ BinaryName \in asm_log[i].tree.files
            /\ "bin" \notin asm_log[i].tree.dirs
            /\ \A f \in asm_log[i].tree.files : ~OccursAt(f, "bin/", 1)
            /\ i < Len(asm_log) =>
                  /\ ~asm_log[i + 1].ok
                  /\ asm_log[i + 1].at = "assert_binary_in_bin"
                  /\ asm_log[i + 1].tree = asm_log[i].tree

C7_Witness ==
    /\ Len(asm_log) = 2
    /\ asm_log[1].ok
    /\ asm_log[2].at = "assert_binary_in_bin"
    /\ tree.dirs = {"addons", "cfg", "platforms"}
    /\ "cppcheck" \in tree.files

\* C9: the readme step never aborts the assembler: with a readme.md or
\* readme.txt in the working directory under any capitalisation, a run
\* that reaches the step copies one into the tree and goes on; with none it
\* copies nothing and goes on.
C9_ReadmeStep ==
    \A i \in 1..Len(asm_log) :
        /\ asm_log[i].at # "copy_readme"
        /\ ( asm_log[i].ok \/ asm_log[i].at = "copy_msys_lib_deps" ) =>
              ( readme_matches(cwd_files) # {}
                  <=> asm_log[i].tree.files \cap ReadmeNames # {} )

(***************************************************************************)
(* SpecConvert: the conversion on its own.  The ReleaseVersion is written  *)
(* from an optional "v", a major, a minor and an optional patch.           *)
(***************************************************************************)
VersionParts ==
    { [v |-> v, major |-> Dec(ma), minor |-> Dec(mi), has_patch |-> TRUE,
       patch |-> Dec(pa)] :
        v \in {"", "v"}, ma \in 0..MaxMajor, mi \in 0..MaxField, pa \in 0..MaxField }
    \cup
    { [v |-> v, major |-> Dec(ma), minor |-> Dec(mi), has_patch |-> FALSE,
       patch |-> ""] :
        v \in {"", "v"}, ma \in 0..MaxMajor, mi \in 0..MaxField }

Render(p) ==
    p.v \o p.major \o "." \o p.minor \o (IF p.has_patch THEN "." \o p.patch ELSE "")

InitConvert ==
    /\ parts \in VersionParts
    /\ cppcheck_version = Render(parts)
    /\ pio_pkg_version = ""
    /\ vpc = "resolved"
    /\ env_version = Unset
    /\ env_github_ref = ""
    /\ git_describe = NoResult
    /\ DepIdle
    /\ AsmIdle
    /\ MainIdle

NextConvert == GetPiopkgCppcheckVersion

SpecConvert == InitConvert /\ [][NextConvert]_vars

\* s.rjust(2, "0")
LeftPad2(s) == IF Len(s) = 0 THEN "00" ELSE IF Len(s) = 1 THEN "0" \o s ELSE s

\* C1 as the specification words it: "1.2.3" gives "1.0203.0" and "v2.1"
\* gives "1.0100.0".
C1_AsStated ==
    vpc = "converted" =>
        /\ (cppcheck_version = "1.2.3" => pio_pkg_version = "1.0203.0")
        /\ (cppcheck_version = "v2.1" => pio_pkg_version = "1.0100.0")

\* C1 amended: the conversion never fails on "1.2.3" or "v2.1"; it gives
\* "1.10203.0" for "1.2.3" and, with the implicit ".0" patch, "1.20100.0"
\* for "v2.1": the major is part of the digit string.
C1_Examples ==
    /\ (cppcheck_version \in {"1.2.3", "v2.1"} => vpc # "convert_aborted")
    /\ vpc = "converted" =>
        /\ (cppcheck_version = "1.2.3" => pio_pkg_version = "1.10203.0")
        /\ (cppcheck_version = "v2.1" => pio_pkg_version = "1.20100.0")

C1_Witness ==
    /\ vpc = "converted"
    /\ cppcheck_version = "v2.1"
    /\ pio_pkg_version = "1.20100.0"

\* C8: a ReleaseVersion of an optional "v" and two or three decimal fields,
\* minor and patch in 0..99, is always converted, and to "1." + major +
\* minor padded to two digits + patch ("0" when missing) padded to two
\* digits + ".0".
C8_Conversion ==
    /\ vpc # "convert_aborted"
    /\ vpc = "converted" =>
        pio_pkg_version =
            "1." \o parts.major \o LeftPad2(parts.minor)
                 \o LeftPad2(IF parts.has_patch THEN parts.patch ELSE "0") \o ".0"

C8_Witness ==
    /\ vpc = "converted"
    /\ parts = [v |-> "v", major |-> "2", minor |-> "7", has_patch |-> TRUE,
                patch |-> "42"]
    /\ cppcheck_version = "v2.7.42"
    /\ pio_pkg_version = "1.20742.0"

(***************************************************************************)
(* SpecVersion: the resolver under every setting of its three sources,     *)
(* followed by the conversion.                                             *)
(***************************************************************************)
Overrides == {Unset, SetTo("3.4.5"), SetTo("v2.1")}
GithubRefs == {"", "refs/tags/", "refs/tags/v1.90", "refs/tags/1.2.3", "refs/heads/main"}
GitDescribes ==
    { [returncode |-> 128, out |-> ""],
      [returncode |-> 0, out |-> "2.13.0\n"],
      [returncode |-> 0, out |-> "v2.12-4-g1a2b3c\n"] }

InitVersion ==
    /\ env_version \in Overrides
    /\ env_github_ref \in GithubRefs
    /\ git_describe \in GitDescribes
    /\ cppcheck_version = ""
    /\ pio_pkg_version = ""
    /\ vpc = "start"
    /\ parts = NoParts
    /\ DepIdle
    /\ AsmIdle
    /\ MainIdle

NextVersion == GetCppcheckVersion \/ GetPiopkgCppcheckVersion

SpecVersion == InitVersion /\ [][NextVersion]_vars

\* C2: under every setting of the override, the tag reference and git
\* describe, the resolver returns, and returns a non-empty version: the
\* override if set, else the tag reference without its prefix, else the
\* trimmed git describe output if the command succeeded, else "1.0.0".
C2_ResolverTotal ==
    vpc # "start" =>
        /\ vpc # "resolve_aborted"
        /\ cppcheck_version # ""
        /\ cppcheck_version =
              IF env_version.set THEN env_version.val
              ELSE IF Replace(env_github_ref, "refs/tags/", "") # ""
                   THEN Replace(env_github_ref, "refs/tags/", "")
              ELSE IF git_describe.returncode = 0 THEN Strip(git_describe.out)
              ELSE "1.0.0"

(***************************************************************************)
(* Manifest Generator, Package Validator, Archiver/Publisher and main.     *)
(***************************************************************************)
\* validate_exec_command that never exits
validate_exec_command_never_exits(result) == TRUE

\* TRUE when validate_exec_command returns, FALSE when it calls sys.exit(1)
validate_exec_command(result) == result.returncode = 0

Rc(rc) == [returncode |-> rc, out |-> ""]

\* "%s_%s" % (platform.system().lower(), platform.machine().lower())
host_system(windows) == IF windows THEN "windows_amd64" ELSE "linux_x86_64"

get_target_systems(target_systems, windows) ==
    IF target_systems = "" THEN <<host_system(windows)>>
    ELSE LET values == Split(target_systems, ",")
         IN  [j \in 1..Len(values) |-> Replace(Strip(values[j]), "\"", "")]

get_package_manifeset_data(version, system) ==
    IF version = "" \/ system = <<>> THEN Raised("AssertionError")
    ELSE Returned([name |-> "tool-cppcheck", version |-> version, system |-> system])

\* validate_package without its loop over the three folders
validate_package_without_folders(t, windows, version_rc) ==
    LET binary_name == normalize_binary("cppcheck", windows)
    IN  IF binary_name \notin t.files THEN [ok |-> FALSE, at |-> "assert_binary", ran |-> FALSE]
        ELSE IF "package.json" \notin t.files
             THEN [ok |-> FALSE, at |-> "assert_manifest", ran |-> FALSE]
        ELSE IF ~validate_exec_command(Rc(version_rc))
             THEN [ok |-> FALSE, at |-> "exit_version", ran |-> TRUE]
        ELSE [ok |-> TRUE, at |-> "", ran |-> TRUE]

\* version_rc: the exit code of `<binary> --version`; ran: whether it was run
validate_package(t, windows, version_rc) ==
    LET binary_name == normalize_binary("cppcheck", windows)
    IN  IF binary_name \notin t.files THEN [ok |-> FALSE, at |-> "assert_binary", ran |-> FALSE]
        ELSE IF \E folder \in {"addons", "cfg", "platforms"} : folder \notin t.dirs
             THEN [ok |-> FALSE, at |-> "assert_folder", ran |-> FALSE]
        ELSE IF "package.json" \notin t.files
             THEN [ok |-> FALSE, at |-> "assert_manifest", ran |-> FALSE]
        ELSE IF ~validate_exec_command(Rc(version_rc))
             THEN [ok |-> FALSE, at |-> "exit_version", ran |-> TRUE]
        ELSE [ok |-> TRUE, at |-> "", ran |-> TRUE]

\* str(x) of a list of strings without quotes or backslashes
py_str_list(xs) ==
    "[" \o Join([j \in 1..Len(xs) |-> "'" \o xs[j] \o "'"], ", ") \o "]"

\* os.path.join(result_dir, "cppcheck-%s.tar.gz" % get_target_systems()),
\* less the directory
archive_package_name(systems) == "cppcheck-" \o py_str_list(systems) \o ".tar.gz"

\* the file main asserts at its end, less the directory
final_package_name(systems, version) ==
    "tool-cppcheck-" \o systems[1] \o "-" \o version \o ".tar.gz"

\* The exit codes tar can give: its one file argument is the names of
\* os.listdir(package_dir) joined by spaces, which names a file of the tree
\* only when the tree holds a single entry.
TarExitCodes(t) == IF Cardinality(listdir(t)) = 1 THEN {0, 2} ELSE {2}

Stages ==
    << "get_target_systems", "get_cppcheck_version", "get_piopkg_cppcheck_version",
       "check_requirements", "configure_cmake_project", "install_cppcheck",
       "prepare_package", "generate_pio_manifest", "validate_package",
       "create_pio_package", "final_check", "done" >>

StageNo(st) == CHOOSE j \in 1..Len(Stages) : Stages[j] = st

Running(st) == pc = st /\ exit_code = -1

\* the call returned: main goes on to its next call
GoOn(st) == /\ pc' = Stages[StageNo(st) + 1]
            /\ exit_code' = -1
            /\ failure' = ""

\* an uncaught exception or sys.exit(1): the process ends with exit code 1
Die(why) == /\ pc' = pc
            /\ exit_code' = 1
            /\ failure' = why

MainGetTargetSystems ==
    /\ Running("get_target_systems")
    /\ package_systems' = get_target_systems(env_systems, is_windows)
    /\ GoOn("get_target_systems")
    /\ UNCHANGED <<env_systems, cmd_rc, manifest, result_dir>>
    /\ UNCHANGED <<verVars, depVars, asmVars>>

MainGetCppcheckVersion ==
    /\ Running("get_cppcheck_version")
    /\ LET r == get_cppcheck_version(env_version, env_github_ref, git_describe)
       IN  IF r.ok
           THEN /\ cppcheck_version' = r.val
                /\ GoOn("get_cppcheck_version")
           ELSE /\ cppcheck_version' = cppcheck_version
                /\ Die(r.val)
    /\ UNCHANGED <<env_version, env_github_ref, git_describe, pio_pkg_version, vpc, parts>>
    /\ UNCHANGED <<env_systems, package_systems, cmd_rc, manifest, result_dir>>
    /\ UNCHANGED <<depVars, asmVars>>

MainGetPiopkgCppcheckVersion ==
    /\ Running("get_piopkg_cppcheck_version")
    /\ LET r == get_piopkg_cppcheck_version(cppcheck_version)
       IN  IF r.ok
           THEN /\ pio_pkg_version' = r.val
                /\ GoOn("get_piopkg_cppcheck_version")
           ELSE /\ pio_pkg_version' = pio_pkg_version
                /\ Die(r.val)
    /\ UNCHANGED <<env_version, env_github_ref, git_describe, cppcheck_version, vpc, parts>>
    /\ UNCHANGED <<env_systems, package_systems, cmd_rc, manifest, result_dir>>
    /\ UNCHANGED <<depVars, asmVars>>

\* check_requirements: the tool packages are found or installed, the
\* required programs are on PATH and the two directories can be made, or not.
CheckRequirements ==
    /\ Running("check_requirements")
    /\ \E met \in BOOLEAN :
          IF met THEN GoOn("check_requirements") ELSE Die("check_requirements")
    /\ UNCHANGED <<env_systems, package_systems, cmd_rc, manifest, result_dir>>
    /\ UNCHANGED <<verVars, depVars, asmVars>>

\* configure_cmake_project: run_cmake, then validate_exec_command
ConfigureCmakeProject ==
    /\ Running("configure_cmake_project")
    /\ \E rc \in {0, 1} :
          /\ cmd_rc' = [cmd_rc EXCEPT !["configure"] = rc]
          /\ IF validate_exec_command(Rc(rc)) THEN GoOn("configure_cmake_project")
             ELSE Die("exit_configure")
    /\ UNCHANGED <<env_systems, package_systems, manifest, result_dir>>
    /\ UNCHANGED <<verVars, depVars, asmVars>>

\* install_cppcheck: the install target leaves a tree in install_dir
InstallCppcheck ==
    /\ Running("install_cppcheck")
    /\ \E rc \in {0, 1} :
          /\ cmd_rc' = [cmd_rc EXCEPT !["install"] = rc]
          /\ IF validate_exec_command(Rc(rc))
             THEN /\ tree' \in { t \in InstalledTrees(is_windows) : WellFormedTree(t) }
                  /\ GoOn("install_cppcheck")
             ELSE /\ tree' = tree
                  /\ Die("exit_install")
    /\ UNCHANGED <<is_windows, fs_case_sensitive, cwd_files, asm_log>>
    /\ UNCHANGED <<env_systems, package_systems, manifest, result_dir>>
    /\ UNCHANGED <<verVars, depVars>>

MainPreparePackage ==
    /\ Running("prepare_package")
    /\ \E first \in FirstReadmes(cwd_files), rmtree_ok \in BOOLEAN :
          LET r == prepare_package(tree, is_windows, cwd_files, fs_case_sensitive,
                                   first, rmtree_ok, ldd, fs_files)
          IN  /\ tree' = r.tree
              /\ asm_log' = <<r>>
              /\ IF r.ok THEN GoOn("prepare_package") ELSE Die(r.at)
    /\ UNCHANGED <<is_windows, fs_case_sensitive, cwd_files>>
    /\ UNCHANGED <<env_systems, package_systems, cmd_rc, manifest, result_dir>>
    /\ UNCHANGED <<verVars, depVars>>

GeneratePioManifest ==
    /\ Running("generate_pio_manifest")
    /\ LET r == get_package_manifeset_data(pio_pkg_version, package_systems)
       IN  IF r.ok
           THEN /\ manifest' = r.val
                /\ tree' = copy_to(tree, "package.json")
                /\ GoOn("generate_pio_manifest")
           ELSE /\ UNCHANGED <<manifest, tree>>
                /\ Die(r.val)
    /\ UNCHANGED <<is_windows, fs_case_sensitive, cwd_files, asm_log>>
    /\ UNCHANGED <<env_systems, package_systems, cmd_rc, result_dir>>
    /\ UNCHANGED <<verVars, depVars>>

ValidatePackage ==
    /\ Running("validate_package")
    /\ \E rc \in {0, 1} :
          LET r == validate_package(tree, is_windows, rc)
          IN  /\ cmd_rc' = IF r.ran THEN [cmd_rc EXCEPT !["version"] = rc] ELSE cmd_rc
              /\ IF r.ok THEN GoOn("validate_package") ELSE Die(r.at)
    /\ UNCHANGED <<env_systems, package_systems, manifest, result_dir>>
    /\ UNCHANGED <<verVars, depVars, asmVars>>

\* create_pio_package: `pio package pack` names its archive itself, after
\* the manifest: with or without the system.
CreatePioPackage ==
    /\ Running("create_pio_package")
    /\ IF ~tree.exists
       THEN /\ Die("assert_package_dir")
            /\ UNCHANGED <<cmd_rc, result_dir>>
       ELSE \E rc \in {0, 1} :
              /\ cmd_rc' = [cmd_rc EXCEPT !["pack"] = rc]
              /\ IF validate_exec_command(Rc(rc))
                 THEN /\ \E name \in { final_package_name(package_systems, pio_pkg_version),
                                       "tool-cppcheck-" \o pio_pkg_version \o ".tar.gz" } :
                            result_dir' = result_dir \cup {name}
                      /\ GoOn("create_pio_package")
                 ELSE /\ result_dir' = result_dir
                      /\ Die("exit_pack")
    /\ UNCHANGED <<env_systems, package_systems, manifest>>
    /\ UNCHANGED <<verVars, depVars, asmVars>>

\* the assertion that ends main
FinalCheck ==
    /\ Running("final_check")
    /\ IF final_package_name(package_systems, pio_pkg_version) \in result_dir
       THEN /\ pc' = "done"
            /\ exit_code' = 0
            /\ failure' = ""
       ELSE Die("assert_final_package")
    /\ UNCHANGED <<env_systems, package_systems, cmd_rc, manifest, result_dir>>
    /\ UNCHANGED <<verVars, depVars, asmVars>>

\* archive_package, the tar strategy, in create_pio_package's place.  The
\* working directory is install_dir while tar runs and is put back before
\* validate_exec_command.  tar may leave its output file behind when it fails.
ArchivePackage ==
    /\ Running("archive_package")
    /\ IF ~tree.exists
       THEN /\ Die("assert_package_dir")
            /\ UNCHANGED <<cmd_rc, result_dir>>
       ELSE \E rc \in TarExitCodes(tree), written \in BOOLEAN :
              /\ rc = 0 => written
              /\ cmd_rc' = [cmd_rc EXCEPT !["tar"] = rc]
              /\ result_dir' =
                    IF written
                    THEN result_dir \cup
                            {archive_package_name(get_target_systems(env_systems, is_windows))}
                    ELSE result_dir
              /\ IF validate_exec_command(Rc(rc))
                 THEN /\ pc' = "final_check"
                      /\ exit_code' = -1
                      /\ failure' = ""
                 ELSE Die("exit_tar")
    /\ UNCHANGED <<env_systems, package_systems, manifest>>
    /\ UNCHANGED <<verVars, depVars, asmVars>>

(***************************************************************************)
(* Spec: one run of main.                                                  *)
(***************************************************************************)
SystemValues == {"", "linux_x86_64", "\"windows_amd64\", \"windows_x86\""}
StaleResults == {{}, {"tool-cppcheck-linux_x86_64-1.10500.0.tar.gz"}}

Init ==
    /\ env_version \in {Unset, SetTo("1.5")}
    /\ env_github_ref \in {"", "refs/tags/", "refs/tags/v2.1"}
    /\ git_describe \in {[returncode |-> 128, out |-> ""], [returncode |-> 0, out |-> "2.13.0\n"]}
    /\ cppcheck_version = ""
    /\ pio_pkg_version = ""
    /\ vpc = "idle"
    /\ parts = NoParts
    /\ is_windows \in BOOLEAN
    /\ fs_case_sensitive \in BOOLEAN
    /\ cwd_files \in {{}, {"README.md"}}
    /\ tree = NoTree
    /\ asm_log = <<>>
    /\ binary_exists = TRUE
    /\ ldd_entries \in (IF is_windows THEN AsmLddEntries ELSE {<<>>})
    /\ ldd = [returncode |-> IF is_windows THEN 0 ELSE 1, out |-> LddOut(ldd_entries)]
    /\ fs_files = Natives
    /\ allowed_paths = <<"msys64">>
    /\ xres = NoExtract
    /\ xpc = "idle"
    /\ pc = "get_target_systems"
    /\ exit_code = -1
    /\ failure = ""
    /\ env_systems \in SystemValues
    /\ package_systems = <<>>
    /\ cmd_rc = [c \in Commands |-> -1]
    /\ manifest = NoManifest
    /\ result_dir \in StaleResults

Next ==
    \/ MainGetTargetSystems
    \/ MainGetCppcheckVersion
    \/ MainGetPiopkgCppcheckVersion
    \/ CheckRequirements
    \/ ConfigureCmakeProject
    \/ InstallCppcheck
    \/ MainPreparePackage
    \/ GeneratePioManifest
    \/ ValidatePackage
    \/ CreatePioPackage
    \/ FinalCheck

Spec == Init /\ [][Next]_vars

\* C5: the archiver is run only on a tree that passed the validator: the
\* binary at the root, the addons, cfg and platforms directories, the
\* manifest, and `<binary> --version` exiting 0; a run whose tree lacks
\* addons ends in the validator before the archiver command runs, and only
\* the archiver writes into the result directory.
C5_ArchiverAfterValidator ==
    /\ []( ( pc \in {"create_pio_package", "final_check", "done"} \/ cmd_rc["pack"] # -1 ) =>
            /\ BinaryName \in tree.files
            /\ {"addons", "cfg", "platforms"} \subseteq tree.dirs
            /\ "package.json" \in tree.files
            /\ cmd_rc["version"] = 0 )
    /\ []( ( StageNo(pc) >= StageNo("validate_package") /\ "addons" \notin tree.dirs ) =>
            /\ pc = "validate_package"
            /\ cmd_rc["pack"] = -1
            /\ exit_code \in {-1, 1} )
    /\ [][ result_dir' # result_dir =>
            /\ pc = "create_pio_package"
            /\ "addons" \in tree.dirs
            /\ cmd_rc'["pack"] = 0 ]_vars

C5_Witness ==
    /\ pc = "validate_package"
    /\ exit_code = 1
    /\ failure = "assert_folder"
    /\ BinaryName \in tree.files
    /\ "package.json" \in tree.files
    /\ "addons" \notin tree.dirs
    /\ cmd_rc["pack"] = -1

FatalStage ==
    [c \in {"configure", "install", "version", "pack"} |->
        CASE c = "configure" -> "configure_cmake_project"
          [] c = "install" -> "install_cppcheck"
          [] c = "version" -> "validate_package"
          [] c = "pack" -> "create_pio_package"]

\* C6: the run exits 0 only once the final check found
\* tool-cppcheck-<platform[0]>-<RegistryVersion>.tar.gz in the result
\* directory; a failure (a failed assertion, or a non-zero exit of
\* configure, install, `<binary> --version` or the registry pack command)
\* ends the run in that stage with exit code 1, and nothing runs after the
\* process has exited.
C6_ExitCodes ==
    /\ []( /\ exit_code \in {-1, 0, 1}
           /\ exit_code = 0 =>
                 /\ pc = "done"
                 /\ final_package_name(package_systems, pio_pkg_version) \in result_dir
           /\ failure # "" => exit_code = 1
           /\ \A c \in DOMAIN FatalStage :
                 cmd_rc[c] \notin {-1, 0} =>
                     /\ exit_code = 1
                     /\ pc = FatalStage[c]
                     /\ \A d \in DOMAIN FatalStage :
                           StageNo(FatalStage[d]) > StageNo(FatalStage[c]) => cmd_rc[d] = -1 )
    /\ [][ exit_code # -1 => UNCHANGED vars ]_vars

C6_Witness ==
    /\ exit_code = 1
    /\ pc = "validate_package"
    /\ cmd_rc["version"] = 1
    /\ cmd_rc["pack"] = -1

(***************************************************************************)
(* SpecArchive: the tar strategy and the final check after it.             *)
(***************************************************************************)
ArchiveTrees ==
    { Tree(TRUE, files, dirs) :
        files \in SUBSET {"cppcheck", "package.json"}, dirs \in SUBSET {"addons", "cfg"} }
    \cup {NoTree}

InitArchive ==
    /\ env_version = Unset
    /\ env_github_ref = ""
    /\ git_describe = NoResult
    /\ cppcheck_version = ""
    /\ pio_pkg_version \in {"1.10500.0", "1.20100.0"}
    /\ vpc = "idle"
    /\ parts = NoParts
    /\ DepIdle
    /\ is_windows \in BOOLEAN
    /\ fs_case_sensitive = FALSE
    /\ cwd_files = {}
    /\ tree \in ArchiveTrees
    /\ asm_log = <<>>
    /\ pc = "archive_package"
    /\ exit_code = -1
    /\ failure = ""
    /\ env_systems \in SystemValues
    /\ package_systems = get_target_systems(env_systems, is_windows)
    /\ cmd_rc = [c \in Commands |-> -1]
    /\ manifest = NoManifest
    /\ result_dir \in StaleResults

NextArchive == ArchivePackage \/ FinalCheck

SpecArchive == InitArchive /\ [][NextArchive]_vars

\* C10: under the tar strategy the archive written into the result
\* directory is named from target-platform-list[0] and the RegistryVersion:
\* once tar has exited 0 the file the final check asserts is there, and the
\* final check passes.
C10_ArchiveNamedForFinalCheck ==
    cmd_rc["tar"] = 0 =>
        /\ final_package_name(package_systems, pio_pkg_version) \in result_dir
        /\ ~(pc = "final_check" /\ exit_code = 1)

=============================================================================
